---- MODULE Spec2Model ----
(***************************************************************************)
(* Model of openmprdb-cli-example (src/index.js): a command line client    *)
(* that signs ban reports with a local PGP key and submits them to a       *)
(* remote reputation service, keeping a ledger file (submits.json) of the  *)
(* bans it has submitted.                                                  *)
(*                                                                         *)
(* Each run of `node index.js <command>` is one process.  The model runs   *)
(* the commands one after the other; the sync command is modelled step by  *)
(* step (timer, signing, request, response, ledger write), and a process   *)
(* can be killed at any of these steps.                                    *)
(***************************************************************************)
EXTENDS Integers, Sequences, FiniteSets, TLC

(***************************************************************************)
(* Bounds of the model.                                                    *)
(***************************************************************************)
\* Longest banned-players.json list.
MaxBans == 2
\* Number of commands started in one behaviour.
MaxRuns == 2
\* Longest ban list where all commands are mixed.
MaxCliBans == 1

(***************************************************************************)
(* JavaScript numbers.  Every number that occurs is a multiple of 1/1000   *)
(* or NaN; it is held in thousandths.                                      *)
(***************************************************************************)
Num(thousandths) == [nan |-> FALSE, milli |-> thousandths]
NaN == [nan |-> TRUE, milli |-> 0]

\* n / 1000 for a number n that is an integer or NaN (src/index.js:99, 127).
Div1000(n) == IF n.nan THEN NaN ELSE Num(n.milli \div 1000)

\* Math.floor(n) (src/index.js:42).
MathFloor(n) == IF n.nan THEN NaN ELSE Num(n.milli - (n.milli % 1000))

\* The decimals of a fraction of r thousandths, 0 < r < 1000, without
\* trailing zeros: 500 -> "5", 250 -> "25", 5 -> "005".
FracDigits(r) ==
    LET d1 == r \div 100
        d2 == (r \div 10) % 10
        d3 == r % 10
    IN  IF d3 # 0 THEN ToString(d1) \o ToString(d2) \o ToString(d3)
        ELSE IF d2 # 0 THEN ToString(d1) \o ToString(d2)
        ELSE ToString(d1)

\* `${n}` for a number n: "NaN", "1", "1.5", "-1".
NumToString(n) ==
    IF n.nan THEN "NaN"
    ELSE LET a == IF n.milli < 0 THEN 0 - n.milli ELSE n.milli
             sign == IF n.milli < 0 THEN "-" ELSE ""
         IN  IF a % 1000 = 0
             THEN sign \o ToString(a \div 1000)
             ELSE sign \o ToString(a \div 1000) \o "." \o FracDigits(a % 1000)

(***************************************************************************)
(* Ban list entries.  `created` is the date text of the ban list; the      *)
(* table gives new Date(created).getTime(), an integer number of           *)
(* milliseconds or NaN for a text that is no date.                         *)
(***************************************************************************)
DateGetTime(created) ==
    CASE created = "1970-01-01T00:00:01Z" -> Num(1000 * 1000)
      [] created = "1970-01-01T00:00:01.500Z" -> Num(1500 * 1000)
      [] OTHER -> NaN

Ban(u, c) == [uuid |-> u, created |-> c, reason |-> "cheating"]

\* The bans a ban list is made of: two bans of one player at different
\* times, one of them not on a whole second, and a ban without a usable date.
BanEntries ==
    {Ban("A", "1970-01-01T00:00:01Z"), Ban("A", "1970-01-01T00:00:01.500Z"),
     Ban("B", "not a date")}

RECURSIVE SeqsUpTo(_, _)
SeqsUpTo(S, n) ==
    IF n = 0 THEN {<<>>}
    ELSE LET shorter == SeqsUpTo(S, n - 1)
         IN  shorter \cup {Append(s, x) : s \in {t \in shorter : Len(t) = n - 1}, x \in S}

BanLists == SeqsUpTo(BanEntries, MaxBans)

(***************************************************************************)
(* The canonical message encoder.  An object is the sequence of its        *)
(* <<name, value text>> pairs in insertion order.                          *)
(***************************************************************************)
RECURSIVE obj2kv(_)
obj2kv(obj) ==
    IF obj = <<>> THEN ""
    ELSE obj[1][1] \o ": " \o obj[1][2] \o "\n" \o obj2kv(Tail(obj))

(***************************************************************************)
(* Submission records of sync.                                             *)
(***************************************************************************)
\* uuidv4(): the n-th identifier generated locally.
uuidv4(n) == "L" \o ToString(n)

\* The object literal of sync.
SyncData(ban, id) ==
    [uuid |-> id,
     timestamp |-> Div1000(DateGetTime(ban.created)),
     player_uuid |-> ban.uuid,
     points |-> Num(0 - 1000),
     comment |-> ban.reason,
     submit_id |-> ""]

NoData ==
    [uuid |-> "", timestamp |-> NaN, player_uuid |-> "", points |-> NaN,
     comment |-> "", submit_id |-> ""]

\* The enumerable properties of data when finalizeSubmits encodes it
\* (submit_id is set only after the response).
DataFields(data) ==
    << <<"uuid", data.uuid>>,
       <<"timestamp", NumToString(data.timestamp)>>,
       <<"player_uuid", data.player_uuid>>,
       <<"points", NumToString(data.points)>>,
       <<"comment", data.comment>> >>

(***************************************************************************)
(* The dedup ledger: a mapping from key text to {local, remote}.           *)
(***************************************************************************)
EmptyLedger == [k \in {} |-> [local |-> "", remote |-> ""]]

Put(m, k, v) == [x \in (DOMAIN m) \cup {k} |-> IF x = k THEN v ELSE m[x]]

\* The key prepareList looks up for a ban.
DiffKey(ban) ==
    ban.uuid \o ":" \o NumToString(Div1000(DateGetTime(ban.created)))

\* The (player, timestamp) pair of a record, as the history names it.
PairOf(data) == data.player_uuid \o ":" \o NumToString(data.timestamp)

\* A variant that keys the ledger by whole seconds.
RecordKeyFloor(data) ==
    data.player_uuid \o ":" \o NumToString(MathFloor(data.timestamp))

\* The key updateSubmits writes for a record.
RecordKey(data) == data.player_uuid \o ":" \o NumToString(data.timestamp)

\* A variant with the two identifiers exchanged.
RecordEntrySwapped(data) == [local |-> data.submit_id, remote |-> data.uuid]

\* The entry updateSubmits writes for a record.
RecordEntry(data) == [local |-> data.uuid, remote |-> data.submit_id]

\* A variant that starts the ledger afresh with the new entry.
updateSubmitsAfresh(data, submits) ==
    Put(EmptyLedger, RecordKey(data), RecordEntry(data))

\* The ledger after submits[key] = entry in updateSubmits.
updateSubmits(data, submits) == Put(submits, RecordKey(data), RecordEntry(data))

\* The work list: the bans whose key has no (truthy) entry, in ban list order.
prepareList(banlist, submits) ==
    SelectSeq(banlist, LAMBDA ban : DiffKey(ban) \notin DOMAIN submits)

\* A ledger left by an earlier run over another ban list.
OldEntry == [local |-> "L0", remote |-> "R0"]
OldLedger == Put(EmptyLedger, "A:1", OldEntry)

(***************************************************************************)
(* Key files and signing.                                                  *)
(***************************************************************************)
NoKeys == [privateKey |-> "", publicKey |-> "", revocationCertificate |-> ""]
ECCKeys ==
    [privateKey |-> "ecc-private", publicKey |-> "ecc-public",
     revocationCertificate |-> "ecc-revocation"]

\* pgpSignMessage reads both key files; a missing file rejects.
CanSign(kf) == kf.publicKey # "" /\ kf.privateKey # ""

(***************************************************************************)
(* Responses of the remote service.                                        *)
(***************************************************************************)
NoRes == [json |-> FALSE, status |-> FALSE, uuid |-> ""]
ResOk(id) == [json |-> TRUE, status |-> TRUE, uuid |-> id]
ResRejected == [json |-> TRUE, status |-> FALSE, uuid |-> ""]
\* A body JSON.parse throws on (an error page of a proxy, an empty body).
ResGarbage == [json |-> FALSE, status |-> FALSE, uuid |-> "<html>"]

(***************************************************************************)
(* State.                                                                  *)
(***************************************************************************)
VARIABLES
    keyfiles,     \* the files privateKey, publicKey, revocationCertificate
    server_uuid,  \* the file server_uuid ("" when absent)
    file,         \* the file submits.json: [ok, map]; ok is FALSE while the
                  \* file holds no complete JSON text
    banfile,      \* the file banned-players.json
    remote,       \* the submissions the remote service has accepted
    cmd,          \* the command of the current (or last) process
    pc,           \* position of sync(): idle, loop, await, done, failed, crashed
    submits,      \* sync: the ledger object in memory
    loaded,       \* sync: the ledger as getSubmits returned it
    list,         \* sync: the work list
    i,            \* sync: loop index (1-based)
    task,         \* sync: per work-list entry, the promise of syncWait
    runs,         \* number of commands started
    nextUuid,     \* number of uuidv4() calls so far
    trace         \* history: the signings, requests, responses and writes

vars ==
    <<keyfiles, server_uuid, file, banfile, remote, cmd, pc, submits, loaded,
      list, i, task, runs, nextUuid, trace>>

\* A history entry: what happened, in which command and process, for which
\* ledger key, with which identifier and text.
Event(e, c, r, k, id, a) ==
    [ev |-> e, cmd |-> c, run |-> r, key |-> k, id |-> id, arg |-> a]

NoTask == [st |-> "none", data |-> NoData, res |-> NoRes, buf |-> EmptyLedger]

Terminal == {"idle", "done", "failed", "crashed"}

Init ==
    /\ keyfiles \in {NoKeys, ECCKeys}
    /\ server_uuid = ""
    /\ file \in {[ok |-> TRUE, map |-> EmptyLedger], [ok |-> TRUE, map |-> OldLedger]}
    /\ banfile \in BanLists
    /\ remote = {}
    /\ cmd = "none"
    /\ pc = "idle"
    /\ submits = EmptyLedger
    /\ loaded = EmptyLedger
    /\ list = <<>>
    /\ i = 1
    /\ task = <<>>
    /\ runs = 0
    /\ nextUuid = 0
    /\ trace = <<>>

(***************************************************************************)
(* sync                                                                    *)
(***************************************************************************)
\* `node index.js sync` starts: sync() reads the ban list and the ledger and
\* computes the work list.  JSON.parse throws on a ledger file that holds no
\* complete JSON text, and sync() ends rejected.
SyncStart ==
    /\ pc \in Terminal
    /\ runs < MaxRuns
    /\ runs' = runs + 1
    /\ cmd' = "sync"
    /\ IF file.ok
       THEN /\ submits' = file.map
            /\ loaded' = file.map
            /\ list' = prepareList(banfile, file.map)
            /\ pc' = "loop"
       ELSE /\ submits' = EmptyLedger
            /\ loaded' = EmptyLedger
            /\ list' = <<>>
            /\ pc' = "failed"
    /\ i' = 1
    /\ task' = [k \in 1..Len(list') |-> NoTask]
    /\ trace' = Append(trace, Event("start", "sync", runs + 1, "", "", ""))
    /\ UNCHANGED <<keyfiles, server_uuid, file, banfile, remote, nextUuid>>

\* A variant whose syncWait calls finalizeSubmits at once, without a timer.
SyncIterNoWait ==
    /\ pc = "loop"
    /\ i <= Len(list)
    /\ nextUuid' = nextUuid + 1
    /\ task' = [task EXCEPT ![i] =
                   [st |-> "sign", data |-> SyncData(list[i], uuidv4(nextUuid + 1)),
                    res |-> NoRes, buf |-> EmptyLedger]]
    /\ pc' = "await"
    /\ UNCHANGED <<keyfiles, server_uuid, file, banfile, remote, cmd, submits,
                   loaded, list, i, runs, trace>>

\* A variant that looks the key of the entry up again before building its
\* record, and passes over an entry whose key the ledger has by now.
SyncIterRediffs ==
    /\ pc = "loop"
    /\ i <= Len(list)
    /\ IF DiffKey(list[i]) \in DOMAIN submits
       THEN /\ task' = [task EXCEPT ![i].st = "done"]
            /\ i' = i + 1
            /\ UNCHANGED <<pc, nextUuid>>
       ELSE /\ nextUuid' = nextUuid + 1
            /\ task' = [task EXCEPT ![i] =
                   [st |-> "timer", data |-> SyncData(list[i], uuidv4(nextUuid + 1)),
                    res |-> NoRes, buf |-> EmptyLedger]]
            /\ pc' = "await"
            /\ UNCHANGED i
    /\ UNCHANGED <<keyfiles, server_uuid, file, banfile, remote, cmd, submits,
                   loaded, list, runs, trace>>

\* One iteration of the for loop up to its await: the record is built and
\* syncWait arms the timer.
SyncIter ==
    /\ pc = "loop"
    /\ i <= Len(list)
    /\ nextUuid' = nextUuid + 1
    /\ task' = [task EXCEPT ![i] =
                   [st |-> "timer", data |-> SyncData(list[i], uuidv4(nextUuid + 1)),
                    res |-> NoRes, buf |-> EmptyLedger]]
    /\ pc' = "await"
    /\ UNCHANGED <<keyfiles, server_uuid, file, banfile, remote, cmd, submits,
                   loaded, list, i, runs, trace>>

\* The loop condition fails: sync() returns.
SyncFinish ==
    /\ pc = "loop"
    /\ i > Len(list)
    /\ pc' = "done"
    /\ UNCHANGED <<keyfiles, server_uuid, file, banfile, remote, cmd, submits,
                   loaded, list, i, task, runs, nextUuid, trace>>

\* The process is running its event loop.
Alive == cmd = "sync" /\ pc \in {"loop", "await", "done"}

\* setTimeout fires after config.wait: finalizeSubmits encodes the record and
\* starts pgpSignMessage.
TimerFires(k) ==
    /\ Alive
    /\ task[k].st = "timer"
    /\ task' = [task EXCEPT ![k].st = "sign"]
    /\ trace' = Append(trace,
          Event("timer", "sync", runs, PairOf(task[k].data), task[k].data.uuid, ""))
    /\ UNCHANGED <<keyfiles, server_uuid, file, banfile, remote, cmd, pc, submits,
                   loaded, list, i, runs, nextUuid>>

\* pgpSignMessage settles.  Signed: apiPutSubmit sends PUT /v1/submit/new.
\* Rejected: finalizeSubmits rejects.
SignAndSend(k) ==
    /\ Alive
    /\ task[k].st = "sign"
    /\ IF CanSign(keyfiles)
       THEN /\ task' = [task EXCEPT ![k].st = "sent"]
            /\ trace' = trace \o
                 << Event("sign", "sync", runs, "", "", obj2kv(DataFields(task[k].data))),
                    Event("submit", "sync", runs, PairOf(task[k].data),
                          task[k].data.uuid, NumToString(task[k].data.points)) >>
       ELSE /\ task' = [task EXCEPT ![k].st = "err"]
            /\ UNCHANGED trace
    /\ UNCHANGED <<keyfiles, server_uuid, file, banfile, remote, cmd, pc, submits,
                   loaded, list, i, runs, nextUuid>>

\* The identifier the remote service gives its next submission.
RemoteId == "R" \o ToString(Cardinality(remote) + 1)

\* The remote service accepts the submission and answers {status: true, uuid}.
RemoteAccept(k) ==
    /\ Alive
    /\ task[k].st = "sent"
    /\ remote' = remote \cup
          {[key |-> PairOf(task[k].data), local |-> task[k].data.uuid,
            rid |-> RemoteId, run |-> runs]}
    /\ task' = [task EXCEPT ![k].st = "answered", ![k].res = ResOk(RemoteId)]
    /\ UNCHANGED <<keyfiles, server_uuid, file, banfile, cmd, pc, submits, loaded,
                   list, i, runs, nextUuid, trace>>

\* The remote service answers {status: false}, or with a body that is no JSON.
RemoteRefuse(k) ==
    /\ Alive
    /\ task[k].st = "sent"
    /\ \E r \in {ResRejected, ResGarbage} :
          task' = [task EXCEPT ![k].st = "answered", ![k].res = r]
    /\ UNCHANGED <<keyfiles, server_uuid, file, banfile, remote, cmd, pc, submits,
                   loaded, list, i, runs, nextUuid, trace>>

\* The request emits 'error' (before or after the service handled it): api()
\* rejects and so does finalizeSubmits.
TransportError(k) ==
    /\ Alive
    /\ task[k].st \in {"sent", "answered"}
    /\ task' = [task EXCEPT ![k].st = "err"]
    /\ UNCHANGED <<keyfiles, server_uuid, file, banfile, remote, cmd, pc, submits,
                   loaded, list, i, runs, nextUuid, trace>>

\* A variant that records whatever the remote answered.
ShouldRecordAlways(res) == TRUE

\* The test of finalizeSubmits on the parsed response.
ShouldRecord(res) == res.status

\* The data object after data['submit_id'] = res.uuid.
Reconciled(t) == [t.data EXCEPT !.submit_id = t.res.uuid]

\* The response has arrived: finalizeSubmits parses it; on status it sets
\* submit_id and calls updateSubmits, which updates the ledger in memory and
\* starts fs.writeFile with the JSON text of the ledger.
Reconcile(k) ==
    /\ Alive
    /\ task[k].st = "answered"
    /\ LET t == task[k] IN
       IF ~t.res.json
       THEN /\ task' = [task EXCEPT ![k].st = "err"]
            /\ trace' = Append(trace,
                  Event("response", "sync", runs, PairOf(t.data), "", "garbage"))
            /\ UNCHANGED submits
       ELSE IF ~ShouldRecord(t.res)
       THEN /\ task' = [task EXCEPT ![k].st = "done"]
            /\ trace' = Append(trace,
                  Event("response", "sync", runs, PairOf(t.data), "", "false"))
            /\ UNCHANGED submits
       ELSE /\ submits' = updateSubmits(Reconciled(t), submits)
            /\ task' = [task EXCEPT ![k].st = "write", ![k].data = Reconciled(t),
                                    ![k].buf = submits']
            /\ trace' = Append(trace,
                  Event("response", "sync", runs, PairOf(t.data), t.res.uuid,
                        IF t.res.status THEN "true" ELSE "false"))
    /\ UNCHANGED <<keyfiles, server_uuid, file, banfile, remote, cmd, pc, loaded,
                   list, i, runs, nextUuid>>

\* fs.writeFile opens submits.json for writing, which truncates it.
WriteTruncate(k) ==
    /\ Alive
    /\ task[k].st = "write"
    /\ file' = [ok |-> FALSE, map |-> EmptyLedger]
    /\ task' = [task EXCEPT ![k].st = "writing"]
    /\ UNCHANGED <<keyfiles, server_uuid, banfile, remote, cmd, pc, submits, loaded,
                   list, i, runs, nextUuid, trace>>

\* fs.writeFile has written the whole text: updateSubmits and finalizeSubmits
\* return.
WriteComplete(k) ==
    /\ Alive
    /\ task[k].st = "writing"
    /\ file' = [ok |-> TRUE, map |-> task[k].buf]
    /\ task' = [task EXCEPT ![k].st = "done"]
    /\ trace' = Append(trace,
          Event("recorded", "sync", runs, PairOf(task[k].data),
                task[k].data.submit_id, task[k].data.uuid))
    /\ UNCHANGED <<keyfiles, server_uuid, banfile, remote, cmd, pc, submits, loaded,
                   list, i, runs, nextUuid>>

\* A variant whose promise never settles.
AwaitedNever(t) == FALSE

\* A variant of a loop that does not await.
AwaitedAny(t) == TRUE

\* `await syncWait(...)` resumes once the promise of the entry has settled.
Awaited(t) == t.st \in {"done", "err"}

\* A variant that goes on with the next entry after a rejection.
AwaitReturnSkipsFailed ==
    /\ pc = "await"
    /\ Awaited(task[i])
    /\ pc' = "loop"
    /\ i' = i + 1
    /\ UNCHANGED <<keyfiles, server_uuid, file, banfile, remote, cmd, submits,
                   loaded, list, task, runs, nextUuid, trace>>

\* sync() resumes after its await: a rejection ends sync() (and, unhandled,
\* the process); otherwise the loop goes on with the next entry.
AwaitReturn ==
    /\ pc = "await"
    /\ Awaited(task[i])
    /\ IF task[i].st = "err"
       THEN pc' = "failed" /\ UNCHANGED i
       ELSE pc' = "loop" /\ i' = i + 1
    /\ UNCHANGED <<keyfiles, server_uuid, file, banfile, remote, cmd, submits,
                   loaded, list, task, runs, nextUuid, trace>>

\* The sync process is killed at some step.  What it had in memory is
\* gone; a write in progress leaves the file truncated.
Crash ==
    /\ cmd = "sync"
    /\ pc \in {"loop", "await"}
    /\ pc' = "crashed"
    /\ trace' = Append(trace, Event("crash", "sync", runs, "", "", ""))
    /\ UNCHANGED <<keyfiles, server_uuid, file, banfile, remote, cmd, submits,
                   loaded, list, i, task, runs, nextUuid>>

(***************************************************************************)
(* The one-shot commands.  Each is one action: the process runs to its end *)
(* before the next command starts.                                         *)
(***************************************************************************)
\* A one-shot process has no sync() in it.
NoSync ==
    /\ pc' = "idle"
    /\ submits' = EmptyLedger
    /\ loaded' = EmptyLedger
    /\ list' = <<>>
    /\ i' = 1
    /\ task' = <<>>

\* The comment the command line loop builds: every word followed by a space.
RECURSIVE JoinWords(_)
JoinWords(words) ==
    IF words = <<>> THEN "" ELSE words[1] \o " " \o JoinWords(Tail(words))

CommentArgs == {<<"x-ray", "abuse">>}

\* new Date().getTime() of the one-shot commands, in milliseconds.
NowTimes == {Num(2500 * 1000)}

\* timestamp()
timestamp(now) == MathFloor(Div1000(now))

\* The player argument of manual.
ManualPlayers == {"A"}

\* The points argument of manual, as typed.
PointsArgs == {"-1.5", "-1", "-0.1", "-0.05", "0", "0.05", "0.1", "1", "1.5"}

\* A variant that lists the points before the player.
ManualFieldsPointsFirst(id, now, uuid, points, comment) ==
    << <<"uuid", id>>,
       <<"timestamp", NumToString(timestamp(now))>>,
       <<"points", points>>,
       <<"player_uuid", uuid>>,
       <<"comment", comment>> >>

\* The object literal of manual.
ManualFields(id, now, uuid, points, comment) ==
    << <<"uuid", id>>,
       <<"timestamp", NumToString(timestamp(now))>>,
       <<"player_uuid", uuid>>,
       <<"points", points>>,
       <<"comment", comment>> >>

\* `node index.js init ecc`: generateKeyECC writes the three key files.
KeyGenECC ==
    /\ pc \in Terminal
    /\ runs < MaxRuns
    /\ runs' = runs + 1
    /\ cmd' = "init"
    /\ keyfiles' = ECCKeys
    /\ NoSync
    /\ trace' = Append(trace, Event("start", "init", runs + 1, "", "", "ecc"))
    /\ UNCHANGED <<server_uuid, file, banfile, remote, nextUuid>>

\* `node index.js init`: generateKeyRSA writes privateKey and publicKey; saveKey
\* gets no revocation certificate and leaves that file alone.
KeyGenRSA ==
    /\ pc \in Terminal
    /\ runs < MaxRuns
    /\ runs' = runs + 1
    /\ cmd' = "init"
    /\ keyfiles' = [keyfiles EXCEPT !.privateKey = "rsa-private",
                                    !.publicKey = "rsa-public"]
    /\ NoSync
    /\ trace' = Append(trace, Event("start", "init", runs + 1, "", "", "rsa"))
    /\ UNCHANGED <<server_uuid, file, banfile, remote, nextUuid>>

\* The text register signs.
RegisterText == "server_name: " \o "my-server"

\* A variant that writes the uuid of any response that parses.
apiRegisterAnyStatus(res, old) == IF res.json THEN res.uuid ELSE old

\* What apiRegister leaves in the file server_uuid for a response.
apiRegister(res, old) == IF res.json /\ res.status THEN res.uuid ELSE old

\* `node index.js register`.  A signing failure ends it before the request;
\* a transport error ends it before the response is looked at.
Register ==
    /\ pc \in Terminal
    /\ runs < MaxRuns
    /\ runs' = runs + 1
    /\ cmd' = "register"
    /\ NoSync
    /\ IF ~CanSign(keyfiles)
       THEN /\ trace' = Append(trace, Event("start", "register", runs + 1, "", "", ""))
            /\ UNCHANGED server_uuid
       ELSE \E out \in {"S1", "rejected", "garbage", "error"} :
            LET res == CASE out = "S1" -> ResOk("S1")
                         [] out = "rejected" -> ResRejected
                         [] OTHER -> ResGarbage
            IN  /\ trace' = trace \o
                     << Event("start", "register", runs + 1, "", "", ""),
                        Event("sign", "register", runs + 1, "", "", RegisterText),
                        Event("register", "register", runs + 1, "", keyfiles.publicKey, out) >>
                /\ server_uuid' = IF out = "error" THEN server_uuid
                                  ELSE apiRegister(res, server_uuid)
    /\ UNCHANGED <<keyfiles, file, banfile, remote, nextUuid>>

\* `node index.js manual <uuid> <points> <comment...>`.  The response body is
\* returned by apiPutSubmit and never looked at.
Manual ==
    /\ pc \in Terminal
    /\ runs < MaxRuns
    /\ runs' = runs + 1
    /\ cmd' = "manual"
    /\ NoSync
    /\ nextUuid' = nextUuid + 1
    /\ \E uuid \in ManualPlayers, points \in PointsArgs, words \in CommentArgs,
          now \in NowTimes :
       LET id == uuidv4(nextUuid + 1)
           text == obj2kv(ManualFields(id, now, uuid, points, JoinWords(words)))
           key == uuid \o ":" \o NumToString(timestamp(now))
       IN  IF ~CanSign(keyfiles)
           THEN /\ trace' = Append(trace,
                      Event("start", "manual", runs + 1, key, id, points))
                /\ UNCHANGED remote
           ELSE /\ trace' = trace \o
                     << Event("start", "manual", runs + 1, key, id, points),
                        Event("sign", "manual", runs + 1, key, id, text),
                        Event("submit", "manual", runs + 1, key, id, points) >>
                /\ \E accepted \in BOOLEAN :
                     remote' = IF accepted
                               THEN remote \cup {[key |-> key, local |-> id,
                                                  rid |-> RemoteId, run |-> runs + 1]}
                               ELSE remote
    /\ UNCHANGED <<keyfiles, server_uuid, file, banfile>>

\* The text revoke signs.
RevokeText(now, comment) ==
    "timestamp: " \o NumToString(timestamp(now)) \o "\n" \o "comment: " \o comment

SubmitIds == {"R0", "R1"}

\* A variant that forgets the ledger entry of a revoked submission.
RevokeDropsEntry ==
    /\ pc \in Terminal
    /\ runs < MaxRuns
    /\ runs' = runs + 1
    /\ cmd' = "revoke"
    /\ NoSync
    /\ \E submit_uuid \in SubmitIds, words \in CommentArgs, now \in NowTimes :
       /\ CanSign(keyfiles)
       /\ trace' = trace \o
              << Event("start", "revoke", runs + 1, "", submit_uuid, ""),
                 Event("sign", "revoke", runs + 1, "", submit_uuid,
                       RevokeText(now, JoinWords(words))),
                 Event("revoke", "revoke", runs + 1, "", submit_uuid, "revoked") >>
       /\ file' = [file EXCEPT !.map =
                     [k \in {x \in DOMAIN file.map : file.map[x].remote # submit_uuid}
                        |-> file.map[k]]]
    /\ UNCHANGED <<keyfiles, server_uuid, banfile, remote, nextUuid>>

\* `node index.js revoke <submit uuid> <comment...>`.  The response body is
\* returned by apiRevokeSubmit and never looked at.
Revoke ==
    /\ pc \in Terminal
    /\ runs < MaxRuns
    /\ runs' = runs + 1
    /\ cmd' = "revoke"
    /\ NoSync
    /\ \E submit_uuid \in SubmitIds, words \in CommentArgs, now \in NowTimes :
       IF ~CanSign(keyfiles)
       THEN trace' = Append(trace,
                Event("start", "revoke", runs + 1, "", submit_uuid, ""))
       ELSE \E out \in {"revoked", "rejected", "error"} :
            trace' = trace \o
              << Event("start", "revoke", runs + 1, "", submit_uuid, ""),
                 Event("sign", "revoke", runs + 1, "", submit_uuid,
                       RevokeText(now, JoinWords(words))),
                 Event("revoke", "revoke", runs + 1, "", submit_uuid, out) >>
    /\ UNCHANGED <<keyfiles, server_uuid, file, banfile, remote, nextUuid>>

(***************************************************************************)
(* Specifications.                                                         *)
(***************************************************************************)
SyncActions ==
    \/ SyncStart
    \/ SyncIter
    \/ SyncFinish
    \/ AwaitReturn
    \/ \E k \in DOMAIN task : TimerFires(k)
    \/ \E k \in DOMAIN task : SignAndSend(k)
    \/ \E k \in DOMAIN task : RemoteAccept(k)
    \/ \E k \in DOMAIN task : RemoteRefuse(k)
    \/ \E k \in DOMAIN task : TransportError(k)
    \/ \E k \in DOMAIN task : Reconcile(k)
    \/ \E k \in DOMAIN task : WriteTruncate(k)
    \/ \E k \in DOMAIN task : WriteComplete(k)

\* Runs of sync, each to its end, over any ban list.
NextSync == SyncActions

SpecSync == Init /\ [][NextSync]_vars

\* What the event loop of a running sync guarantees: the loop goes on when it
\* can, a timer fires, a signing settles, a request is answered or fails, a
\* response is handled and a file write goes through.  Starting a run is up
\* to the operator.
SyncFairness ==
    /\ WF_vars(SyncIter)
    /\ WF_vars(SyncFinish)
    /\ WF_vars(AwaitReturn)
    /\ WF_vars(\E k \in DOMAIN task : TimerFires(k))
    /\ WF_vars(\E k \in DOMAIN task : SignAndSend(k))
    /\ WF_vars(\E k \in DOMAIN task :
                  RemoteAccept(k) \/ RemoteRefuse(k) \/ TransportError(k))
    /\ WF_vars(\E k \in DOMAIN task : Reconcile(k))
    /\ WF_vars(\E k \in DOMAIN task : WriteTruncate(k))
    /\ WF_vars(\E k \in DOMAIN task : WriteComplete(k))

\* Fair runs of sync over the bans of one player, with or without key files.
InitFair ==
    /\ Init
    /\ \A k \in DOMAIN banfile : banfile[k].uuid = "A"

SpecSyncFair == InitFair /\ [][NextSync]_vars /\ SyncFairness

\* Runs of sync that can be killed at any step, with the keys in place, over
\* the bans of one player.
InitCrash ==
    /\ Init
    /\ keyfiles = ECCKeys
    /\ \A k \in DOMAIN banfile : banfile[k].uuid = "A"

NextCrash ==
    \/ SyncActions
    \/ Crash

SpecCrash == InitCrash /\ [][NextCrash]_vars

\* All commands, over short ban lists.
InitCli ==
    /\ Init
    /\ Len(banfile) <= MaxCliBans

Next ==
    \/ SyncActions
    \/ KeyGenECC
    \/ KeyGenRSA
    \/ Register
    \/ Manual
    \/ Revoke

Spec == InitCli /\ [][Next]_vars

(***************************************************************************)
(* Vocabulary of the properties.                                           *)
(***************************************************************************)
TraceIdx == 1..Len(trace)

\* The pairs of the bans of the model.
AllPairs == {DiffKey(b) : b \in BanEntries}

\* The positions of the submit requests sync run r made for a pair.
SyncSubmits(r, pair) ==
    {n \in TraceIdx : /\ trace[n].ev = "submit"
                      /\ trace[n].cmd = "sync"
                      /\ trace[n].run = r
                      /\ trace[n].key = pair}

\* Command r was a sync.
IsSyncRun(r) ==
    \E n \in TraceIdx : trace[n].ev = "start" /\ trace[n].cmd = "sync" /\ trace[n].run = r

\* The keys a ledger has that were not in it before the first command.
Gained(m) == {k \in DOMAIN m : m[k] # OldEntry}

\* The pairs with a response of the given status parsed by sync.
Answered(status) ==
    {trace[n].key : n \in {m \in TraceIdx : trace[m].ev = "response" /\ trace[m].arg = status}}

\* The pairs for which sync made a submit request.
Attempted ==
    {trace[n].key : n \in {m \in TraceIdx : trace[m].ev = "submit" /\ trace[m].cmd = "sync"}}

\* The pairs sync run r got a {status: false} response for.
FailedIn(r) ==
    {trace[n].key : n \in {m \in TraceIdx : /\ trace[m].ev = "response"
                                            /\ trace[m].arg = "false"
                                            /\ trace[m].run = r}}

\* The pairs sync run r wrote to the ledger file.
RecordedIn(r) ==
    {trace[n].key : n \in {m \in TraceIdx : trace[m].ev = "recorded" /\ trace[m].run = r}}

\* sync ran to its end (returned, or ended by a rejection).
SyncEnded == cmd = "sync" /\ pc \in {"done", "failed"}

(***************************************************************************)
(* C1.  As claimed: two runs of sync in a row over the same ban list make  *)
(* at most one submit request per distinct (player, timestamp) pair,       *)
(* counted over both runs.                                                 *)
(***************************************************************************)
\* C1, as claimed: at most one submit request per pair over two runs in a row.
C1_AtMostOncePerPair ==
    \A r \in 1..runs : \A pair \in AllPairs :
        IsSyncRun(r) /\ IsSyncRun(r + 1) =>
            Cardinality(SyncSubmits(r, pair) \cup SyncSubmits(r + 1, pair)) <= 1

\* C1, amended: a pair whose accepted submission a run has written to the
\* ledger file gets no submit request in any later run, and a run makes at
\* most one request per ban-list entry with that pair.
C1_RecordedNotResubmitted ==
    LET sent == {n \in TraceIdx : trace[n].ev = "submit" /\ trace[n].cmd = "sync"}
        written == {n \in TraceIdx : trace[n].ev = "recorded"}
    IN  \A n \in sent :
           /\ \A m \in written :
                 trace[m].run < trace[n].run => trace[m].key # trace[n].key
           /\ Cardinality({m \in sent : /\ trace[m].run = trace[n].run
                                        /\ trace[m].key = trace[n].key})
                 <= Cardinality({k \in DOMAIN banfile :
                                    DiffKey(banfile[k]) = trace[n].key})

\* The second run has ended; the first recorded a pair, the second submitted
\* again one the first had not recorded.
C1_Witness ==
    /\ SyncEnded
    /\ runs = 2
    /\ pc = "done"
    /\ \E n \in TraceIdx : trace[n].ev = "recorded" /\ trace[n].run = 1
    /\ \E pair \in AllPairs : SyncSubmits(1, pair) # {} /\ SyncSubmits(2, pair) # {}

(***************************************************************************)
(* C2.  As claimed: manual signs and submits only when the points lie in   *)
(* [-1, -0.1] or [0.1, 1]; for other points nothing is signed and no       *)
(* request is made.                                                        *)
(***************************************************************************)
\* The points argument as a number, in hundredths.
PointsHundredths(p) ==
    CASE p = "-1.5" -> 0 - 150
      [] p = "-1" -> 0 - 100
      [] p = "-0.1" -> 0 - 10
      [] p = "-0.05" -> 0 - 5
      [] p = "0" -> 0
      [] p = "0.05" -> 5
      [] p = "0.1" -> 10
      [] p = "1" -> 100
      [] OTHER -> 150

PointsInRange(p) ==
    LET h == PointsHundredths(p)
    IN  (0 - 100 <= h /\ h <= 0 - 10) \/ (10 <= h /\ h <= 100)

\* C2: a manual command with points out of range signs nothing and sends
\* nothing; one with points in range (and keys in place) signs and sends.
C2_ManualValidatesPoints ==
    \A n \in TraceIdx :
        trace[n].ev = "start" /\ trace[n].cmd = "manual" =>
            LET acted == \E m \in TraceIdx : /\ trace[m].run = trace[n].run
                                             /\ trace[m].ev \in {"sign", "submit"}
            IN  /\ ~PointsInRange(trace[n].arg) => ~acted
                /\ PointsInRange(trace[n].arg) /\ CanSign(keyfiles) => acted

(***************************************************************************)
(* C3.  As claimed: a response {status: false} for a work-list entry       *)
(* leaves the ledger in memory and the ledger file as they are, and the    *)
(* next sync over the same ban list has the entry in its work list again.  *)
(***************************************************************************)
\* This step is finalizeSubmits taking a {status: false} response.
FailureReconciled ==
    /\ Len(trace') = Len(trace) + 1
    /\ trace'[Len(trace')].ev = "response"
    /\ trace'[Len(trace')].arg = "false"

\* This step is a sync that starts after a sync and loads the ledger.
NextSyncLoaded ==
    /\ runs' = runs + 1
    /\ cmd = "sync"
    /\ cmd' = "sync"
    /\ pc' = "loop"

InWorkList(pair, l) == \E k \in DOMAIN l : DiffKey(l[k]) = pair

\* C3, as claimed: the failure changes neither ledger, and the next sync has
\* every pair that got a failure in its work list.
C3_FailedLeftForRetry ==
    [][ /\ FailureReconciled => submits' = submits /\ file' = file
        /\ NextSyncLoaded => \A pair \in FailedIn(runs) : InWorkList(pair, list')
      ]_vars

\* C3, amended: the failure leaves both ledgers as they are, and the next sync
\* has the entry in its work list again unless the run recorded an accepted
\* submission of another ban-list entry with the same key.
C3_FailedRetriedUnlessRecorded ==
    [][ /\ FailureReconciled => submits' = submits /\ file' = file
        /\ NextSyncLoaded =>
              \A pair \in FailedIn(runs) \ RecordedIn(runs) : InWorkList(pair, list')
      ]_vars

\* The second run has loaded; its work list holds a pair the first run got a
\* failure for, next to a ledger that has gained an entry.
C3_Witness ==
    /\ cmd = "sync"
    /\ runs = 2
    /\ pc = "loop"
    /\ Gained(loaded) # {}
    /\ \E pair \in FailedIn(1) : InWorkList(pair, list)

(***************************************************************************)
(* C4.  As claimed: at every point of a sync run the keys the ledger file  *)
(* has gained in this run are exactly the pairs the remote service has     *)
(* accepted in this run.                                                   *)
(***************************************************************************)
\* The keys submits.json has that the ledger loaded by this run had not.
FileGained == IF file.ok THEN (DOMAIN file.map) \ (DOMAIN loaded) ELSE {}

\* The pairs the remote service has accepted from this run.
AcceptedThisRun == {r.key : r \in {x \in remote : x.run = runs}}

\* The keys of the entries of this run whose reconciliation has completed
\* with a ledger write.
ReconciledThisRun ==
    {RecordKey(task[k].data) :
        k \in {x \in DOMAIN task : /\ task[x].st = "done"
                                   /\ task[x].res.json
                                   /\ task[x].data.submit_id # ""}}

\* C4, as claimed: the keys gained by the file are the pairs accepted.
C4_FileEqualsAccepted == cmd = "sync" => FileGained = AcceptedThisRun

\* C4, amended: every key the file has gained in this run is a pair the remote
\* accepted in this run, and a file that holds a complete mapping has gained
\* exactly the keys whose reconciliation has completed.
C4_FileWithinAccepted ==
    cmd = "sync" =>
        /\ FileGained \subseteq AcceptedThisRun
        /\ file.ok => FileGained = ReconciledThisRun

\* A run was killed after the remote had accepted a pair, and the restarted
\* sync has sent a submit request for that pair again.
C4_Witness ==
    \E r \in remote : \E n \in TraceIdx, m \in TraceIdx :
        /\ r.run = 1
        /\ trace[n].ev = "crash" /\ trace[n].run = 1
        /\ trace[m].ev = "submit" /\ trace[m].run = 2 /\ trace[m].key = r.key

(***************************************************************************)
(* C5.  As claimed: after any sequence of sync runs the ledger has an      *)
(* entry for a key iff a submit request was made for that pair, whatever   *)
(* the remote answered.                                                    *)
(***************************************************************************)
\* C5, as claimed: the keys gained are the pairs a request was made for.
C5_EntryIffAttempted ==
    SyncEnded => file.ok /\ Gained(file.map) = Attempted

\* C5, amended: after sync runs that ran to their end, the ledger has gained
\* an entry for a key iff a submission for that pair was answered with
\* {status: true}.
C5_EntryIffAccepted ==
    SyncEnded => file.ok /\ Gained(file.map) = Answered("true")

\* A run has ended with an entry gained for one pair and none for another
\* pair it had submitted.
C5_Witness ==
    /\ SyncEnded
    /\ Gained(file.map) # {}
    /\ Attempted \ Gained(file.map) # {}

(***************************************************************************)
(* C6.  Every ledger entry sync has written has a remote id, which is the  *)
(* uuid of the {status: true} response to the submission, and its local id *)
(* is the generated id of the record of that submission.                   *)
(***************************************************************************)
\* Entry e under key was written for a submission with local id e.local whose
\* request was answered, next in the history, {status: true, uuid: e.remote}.
WrittenForResponse(key, e) ==
    \E n \in TraceIdx :
        /\ n > 1
        /\ trace[n].ev = "response" /\ trace[n].arg = "true"
        /\ trace[n].key = key /\ trace[n].id = e.remote
        /\ trace[n - 1].ev = "submit" /\ trace[n - 1].cmd = "sync"
        /\ trace[n - 1].key = key /\ trace[n - 1].id = e.local
        /\ trace[n - 1].run = trace[n].run

\* C6: every entry gained, in the file and in memory, has a remote id, was
\* written for a {status: true} response carrying that id to the request
\* carrying its local id, and the remote holds that submission.
C6_RemoteIdOfResponse ==
    \A m \in {file.map, submits} : \A key \in Gained(m) :
        /\ m[key].remote # ""
        /\ WrittenForResponse(key, m[key])
        /\ \E r \in remote :
              r.key = key /\ r.rid = m[key].remote /\ r.local = m[key].local

\* The ban of player A at second 1, answered {status: true, uuid: R1}, is in
\* the ledger file under A:1 with the generated id and R1.
C6_Witness ==
    /\ file.ok
    /\ "A:1" \in DOMAIN file.map
    /\ file.map["A:1"] = [local |-> "L1", remote |-> "R1"]

(***************************************************************************)
(* C7.  sync makes a submit request for a ban only if the ledger it loaded *)
(* has no entry under the ban's key; the key written for a ban is the key  *)
(* the diff computes for it; so a ban recorded by one run is in the work   *)
(* list of no later run, and a ban list whose keys are all in the ledger   *)
(* leads to no submit request.                                             *)
(***************************************************************************)
\* Work-list entry k has got as far as its ledger update.
Updated(k) == task[k].st \in {"write", "writing"} \/ (task[k].st = "done" /\ task[k].data.submit_id # "")

\* C7: an entry is started only for a ban whose key the loaded ledger lacks;
\* the key written equals the key of the diff; pairs recorded by earlier runs
\* are not in the work list; no request when every key is in the ledger.
C7_LedgerKeysSkipped ==
    cmd = "sync" =>
        /\ \A k \in DOMAIN task :
              /\ task[k].st # "none" => DiffKey(list[k]) \notin DOMAIN loaded
              /\ Updated(k) =>
                    /\ RecordKey(task[k].data) = DiffKey(list[k])
                    /\ DiffKey(list[k]) \in DOMAIN submits
        /\ \A r \in 1..(runs - 1) : \A pair \in RecordedIn(r) : ~InWorkList(pair, list)
        /\ (\A k \in DOMAIN banfile : DiffKey(banfile[k]) \in DOMAIN loaded)
              => \A pair \in AllPairs : SyncSubmits(runs, pair) = {}

\* The second run over a ban list whose bans the first run all recorded has
\* ended with an empty work list and without a submit request.
C7_Witness ==
    /\ cmd = "sync"
    /\ runs = 2
    /\ pc = "done"
    /\ Len(banfile) = 2
    /\ list = <<>>
    /\ RecordedIn(1) # {}
    /\ \A k \in DOMAIN banfile : DiffKey(banfile[k]) \in RecordedIn(1)
    /\ \A pair \in AllPairs : SyncSubmits(2, pair) = {}

(***************************************************************************)
(* C8.  At most one submission is in flight: the steps of work-list entry  *)
(* k + 1 (its timer, its signing, its request) begin only when entry k has *)
(* got its response and its reconciliation, the ledger file write          *)
(* included, has completed.                                                *)
(***************************************************************************)
InFlight == {k \in DOMAIN task : task[k].st \in {"sent", "answered"}}

\* C8: at most one request is in flight, and an entry is started only when
\* the entry before it is done.
C8_OneInFlight ==
    cmd = "sync" =>
        /\ Cardinality(InFlight) <= 1
        /\ \A k \in DOMAIN task :
              k > 1 /\ task[k].st # "none" => task[k - 1].st = "done"

\* The request of the second entry is in flight; the first entry has been
\* answered with success and its ledger write has completed.
C8_Witness ==
    /\ cmd = "sync"
    /\ Len(list) = 2
    /\ task[2].st = "sent"
    /\ task[1].st = "done"
    /\ file.ok
    /\ RecordKey(task[1].data) \in DOMAIN file.map

(***************************************************************************)
(* C9.  A failure at work-list entry k (transport error, unparsable        *)
(* response, signing error) stops the run: no later entry is started, so   *)
(* no submit request is made for it, and the ledger file holds, as         *)
(* written, every entry recorded for the entries before k.                 *)
(***************************************************************************)
\* The work-list entries before k whose submission was recorded.
RecordedBefore(k) ==
    {j \in 1..(k - 1) : task[j].st = "done" /\ task[j].data.submit_id # ""}

\* C9: after a failed entry no later entry is started, the file is complete
\* and equal to the ledger in memory and holds what was recorded before; the
\* run has made no more requests than it has started entries.
C9_FailureStopsRun ==
    cmd = "sync" =>
        /\ \A k \in DOMAIN task :
              task[k].st = "err" =>
                 /\ \A j \in DOMAIN task : j > k => task[j].st = "none"
                 /\ file.ok
                 /\ file.map = submits
                 /\ \A j \in RecordedBefore(k) :
                       /\ RecordKey(task[j].data) \in DOMAIN file.map
                       /\ \E l \in RecordedBefore(k) :
                             file.map[RecordKey(task[j].data)] = RecordEntry(task[l].data)
        /\ pc = "failed" /\ list # <<>> =>
              /\ task[i].st = "err"
              /\ \A pair \in AllPairs :
                    Cardinality(SyncSubmits(runs, pair)) <=
                       Cardinality({k \in 1..i : DiffKey(list[k]) = pair})

\* sync has ended at the failure of its second entry; the entry recorded for
\* the first is in the ledger file.
C9_Witness ==
    /\ cmd = "sync"
    /\ pc = "failed"
    /\ Len(list) = 2
    /\ i = 2
    /\ task[2].st = "err"
    /\ RecordedBefore(2) = {1}
    /\ file.ok
    /\ file.map[RecordKey(task[1].data)] = RecordEntry(task[1].data)

(***************************************************************************)
(* C10.  revoke changes no local state: whatever the submission id, the    *)
(* comment and the outcome, the ledger file, the server identifier and the *)
(* key files are after the command what they were before it.               *)
(***************************************************************************)
\* This step is a run of the revoke command.
RevokeRuns == runs' = runs + 1 /\ cmd' = "revoke"

\* C10: a step that runs revoke leaves the ledger file, the server identifier
\* and the key files unchanged.
C10_RevokeFrame ==
    [][RevokeRuns => file' = file /\ server_uuid' = server_uuid /\ keyfiles' = keyfiles]_vars

\* revoke has signed and sent its request for a submission the ledger holds,
\* on a registered installation, and the remote has revoked it.
C10_Witness ==
    /\ cmd = "revoke"
    /\ server_uuid # ""
    /\ CanSign(keyfiles)
    /\ \E key \in DOMAIN file.map :
          /\ trace[Len(trace)].ev = "revoke"
          /\ trace[Len(trace)].arg = "revoked"
          /\ trace[Len(trace)].id = file.map[key].remote

(***************************************************************************)
(* C11.  register writes the server identifier iff the registration        *)
(* response reports success, and then the uuid of that response; otherwise *)
(* the server identifier is what it was; register never changes the dedup  *)
(* ledger.                                                                 *)
(***************************************************************************)
\* This step is a run of the register command.
RegisterRuns == runs' = runs + 1 /\ cmd' = "register"

\* The outcomes of the registration request that are no {status: true}
\* response.
RegisterFailures == {"rejected", "garbage", "error"}

\* The registration request of this step was answered {status: true, uuid}.
RegisterSucceeded ==
    /\ trace'[Len(trace')].ev = "register"
    /\ trace'[Len(trace')].arg \notin RegisterFailures

\* C11: a step that runs register leaves the ledger file as it is; it sets the
\* server identifier to the uuid of a {status: true} response, and leaves it
\* as it is when there is no such response.
C11_RegisterWritesOnSuccess ==
    [][RegisterRuns =>
          /\ file' = file
          /\ RegisterSucceeded => server_uuid' = trace'[Len(trace')].arg
          /\ ~RegisterSucceeded => server_uuid' = server_uuid
      ]_vars

\* A registered installation with a ledger that has an entry has run register
\* again and was rejected: the identifier of the first registration is kept.
C11_Witness ==
    /\ cmd = "register"
    /\ runs = 2
    /\ server_uuid = "S1"
    /\ file.map = OldLedger
    /\ trace[Len(trace)].ev = "register"
    /\ trace[Len(trace)].arg = "rejected"

(***************************************************************************)
(* C12.  As claimed: in each flow (sync, manual, revoke, register) the     *)
(* text handed to pgpSignMessage is one `name: value` line per field of    *)
(* the flow, in field order, every line ended by a newline, the last one   *)
(* too; sync and manual have the fields uuid, timestamp, player_uuid,      *)
(* points, comment in this order.                                          *)
(***************************************************************************)
\* One `name: value` line per field, each ended by a newline.
RECURSIVE CanonicalText(_, _)
CanonicalText(names, values) ==
    IF names = <<>> THEN ""
    ELSE CanonicalText(SubSeq(names, 1, Len(names) - 1),
                       SubSeq(values, 1, Len(values) - 1))
            \o names[Len(names)] \o ": " \o values[Len(values)] \o "\n"

SubmitFieldNames == <<"uuid", "timestamp", "player_uuid", "points", "comment">>
RevokeFieldNames == <<"timestamp", "comment">>
RegisterFieldNames == <<"server_name">>

\* The sign events this step adds to the history.
NewSigns == {n \in (Len(trace) + 1)..Len(trace') : trace'[n].ev = "sign"}

\* The canonical text of the record the sync step signs.
SyncCanonical(text) ==
    \E k \in DOMAIN task :
        /\ task[k].st = "sign"
        /\ task'[k].st = "sent"
        /\ text = CanonicalText(SubmitFieldNames,
                     << task[k].data.uuid, NumToString(task[k].data.timestamp),
                        task[k].data.player_uuid, NumToString(task[k].data.points),
                        task[k].data.comment >>)

\* The canonical text of the record manual signs: the generated id, the
\* current second, the player, the points as typed and the comment.
ManualCanonical(e, text) ==
    \E uuid \in ManualPlayers, words \in CommentArgs, now \in NowTimes :
        /\ e.key = uuid \o ":" \o NumToString(timestamp(now))
        /\ text = CanonicalText(SubmitFieldNames,
                     << e.id, NumToString(timestamp(now)), uuid,
                        trace'[Len(trace')].arg, JoinWords(words) >>)

\* The canonical text of the two fields of revoke.
RevokeCanonical(text) ==
    \E words \in CommentArgs, now \in NowTimes :
        text = CanonicalText(RevokeFieldNames,
                  << NumToString(timestamp(now)), JoinWords(words) >>)

\* The canonical text of the one field of register.
RegisterCanonical(text) == text = CanonicalText(RegisterFieldNames, << "my-server" >>)

\* C12, as claimed: every text signed is the canonical text of its flow.
C12_SignedTextCanonical ==
    [][\A n \in NewSigns :
          LET e == trace'[n] IN
          CASE e.cmd = "sync" -> SyncCanonical(e.arg)
            [] e.cmd = "manual" -> ManualCanonical(e, e.arg)
            [] e.cmd = "revoke" -> RevokeCanonical(e.arg)
            [] OTHER -> RegisterCanonical(e.arg)
      ]_vars

\* C12, amended: the text sync and manual sign is the canonical text of the
\* five fields; the text revoke and register sign is the canonical text of
\* their fields without the newline after the last line.
C12_SignedTextCanonicalButLast ==
    [][\A n \in NewSigns :
          LET e == trace'[n] IN
          CASE e.cmd = "sync" -> SyncCanonical(e.arg)
            [] e.cmd = "manual" -> ManualCanonical(e, e.arg)
            [] e.cmd = "revoke" -> RevokeCanonical(e.arg \o "\n")
            [] OTHER -> RegisterCanonical(e.arg \o "\n")
      ]_vars

\* sync has signed the record of a ban and revoke has then signed its text.
C12_Witness ==
    /\ cmd = "revoke"
    /\ \E n \in TraceIdx : trace[n].ev = "sign" /\ trace[n].cmd = "sync"
    /\ \E n \in TraceIdx :
          /\ trace[n].ev = "sign"
          /\ trace[n].cmd = "revoke"
          /\ trace[n].arg = "timestamp: 2\ncomment: x-ray abuse "

(***************************************************************************)
(* C13.  As claimed: the record sync submits for a ban of the work list    *)
(* has the ban's uuid as its player, points -1, the ban's reason as its    *)
(* comment, the ban's creation time in integer seconds since the epoch as  *)
(* its timestamp, and a generated id no other record of the run has.       *)
(***************************************************************************)
\* The work-list entries of this run whose record has been built.
Built == {k \in DOMAIN task : task[k].st # "none"}

\* A number of whole seconds.
IsIntegerSeconds(n) == ~n.nan /\ n.milli % 1000 = 0

\* C13: every record built has the player and the reason of its ban, points
\* -1, an id of its own and, for a ban whose created text is a date, the
\* creation time in whole seconds.
C13_RecordOfBan ==
    cmd = "sync" =>
        \A k \in Built :
            /\ task[k].data.player_uuid = list[k].uuid
            /\ task[k].data.points = Num(0 - 1000)
            /\ task[k].data.comment = list[k].reason
            /\ ~DateGetTime(list[k].created).nan =>
                  /\ IsIntegerSeconds(task[k].data.timestamp)
                  /\ task[k].data.timestamp =
                        MathFloor(Div1000(DateGetTime(list[k].created)))
            /\ \A j \in Built : j # k => task[j].data.uuid # task[k].data.uuid

(***************************************************************************)
(* C14.  As claimed: the record of a ledger entry is atomic with respect   *)
(* to a kill of the process: killed at any step of updateSubmits, the      *)
(* ledger file holds the complete mapping with the new entry or the        *)
(* complete mapping before it, never a partial or empty text.              *)
(***************************************************************************)
\* The work-list entries whose updateSubmits has begun and not returned.
Recording == {k \in DOMAIN task : task[k].st \in {"write", "writing"}}

\* The mapping before updateSubmits put the entry of work-list entry k in it.
PriorMapping(k) ==
    [key \in (DOMAIN task[k].buf) \ {RecordKey(task[k].data)} |-> task[k].buf[key]]

\* C14: after a kill during updateSubmits the file holds a complete mapping,
\* the one with the new entry or the one before it.
C14_RecordAtomic ==
    cmd = "sync" /\ pc = "crashed" =>
        \A k \in Recording :
            /\ file.ok
            /\ file.map \in {task[k].buf, PriorMapping(k)}

(***************************************************************************)
(* C15.  As claimed: for each work-list entry the steps are build, encode, *)
(* sign, submit, wait the configured delay, reconcile: the delay elapses   *)
(* after the submit request was sent and before its response is            *)
(* reconciled.                                                             *)
(***************************************************************************)
\* The positions of the events of one kind that sync has logged.
SyncEvents(kind) == {n \in TraceIdx : trace[n].ev = kind /\ trace[n].cmd = "sync"}

\* Event n follows event n - 1 of the given kind of the same run.
Follows(n, kind) ==
    /\ n > 1
    /\ trace[n - 1].ev = kind
    /\ trace[n - 1].cmd = "sync"
    /\ trace[n - 1].run = trace[n].run

\* C15, as claimed: the delay of a record elapses after its submit request,
\* and every response is reconciled after the delay that follows its request.
C15_DelayAfterSubmit ==
    /\ \A t \in SyncEvents("timer") :
          \E m \in SyncEvents("submit") : m < t /\ trace[m].id = trace[t].id
    /\ \A n \in SyncEvents("response") :
          \E t \in SyncEvents("timer") :
             /\ t < n
             /\ \E m \in SyncEvents("submit") : m < t /\ trace[m].id = trace[t].id

\* C15, amended: the steps are build, wait, encode, sign, submit, reconcile.
\* The delay of a record elapses once, after the record was built and before
\* it is signed; the request follows the signing; the response is reconciled
\* right after the request, and the ledger write right after the response.
C15_DelayBeforeSign ==
    /\ \A t \in SyncEvents("timer") :
          /\ trace[t].id # ""
          /\ \A m \in SyncEvents("submit") : trace[m].id = trace[t].id => t < m
          /\ \A u \in SyncEvents("timer") : trace[u].id = trace[t].id => u = t
    /\ \A n \in SyncEvents("sign") : Follows(n, "timer")
    /\ \A n \in SyncEvents("submit") :
          /\ Follows(n, "sign")
          /\ Follows(n - 1, "timer")
          /\ trace[n - 2].id = trace[n].id
    /\ \A n \in SyncEvents("response") :
          Follows(n, "submit") /\ trace[n - 1].key = trace[n].key
    /\ \A n \in SyncEvents("recorded") :
          Follows(n, "response") /\ trace[n - 1].key = trace[n].key

\* The second entry of a run has been answered and reconciled into the ledger
\* file: its timer had fired before its request was sent.
C15_Witness ==
    /\ cmd = "sync"
    /\ Len(list) = 2
    /\ task[2].st = "done"
    /\ trace[Len(trace)].ev = "recorded"
    /\ \E t \in SyncEvents("timer"), m \in SyncEvents("submit") :
          /\ trace[t].id = task[2].data.uuid
          /\ trace[m].id = task[2].data.uuid
          /\ t < m

(***************************************************************************)
(* C16.  As claimed: when signing fails for a work-list entry, the entry   *)
(* is skipped for this run: no submit request is made for it, no ledger    *)
(* entry is written for it, in memory or in the file, and the entries      *)
(* after it in the work list are still processed.                          *)
(***************************************************************************)
\* finalizeSubmits of work-list entry k was rejected by pgpSignMessage: the
\* entry failed and no request was made for its record.
SignFailed(k) ==
    /\ task[k].st = "err"
    /\ \A n \in SyncEvents("submit") : trace[n].id # task[k].data.uuid

\* No request was made for entry k, and the ledger, in memory and in the
\* file, has gained nothing but what the entries before k recorded.
NothingDoneFor(k) ==
    /\ \A n \in SyncEvents("submit") : trace[n].id # task[k].data.uuid
    /\ file.ok
    /\ file.map = submits
    /\ \A key \in (DOMAIN submits) \ (DOMAIN loaded) :
          \E j \in RecordedBefore(k) : key = RecordKey(task[j].data)

\* C16, as claimed: once the run has ended, an entry whose signing failed has
\* no request and no ledger entry, and every entry after it was processed.
C16_SignFailureSkipsEntry ==
    SyncEnded =>
        \A k \in DOMAIN task :
            SignFailed(k) =>
                /\ NothingDoneFor(k)
                /\ \A j \in DOMAIN task : j > k => task[j].st # "none"

\* C16, amended: an entry whose signing failed has no request and no ledger
\* entry, and the run ends at it: no entry after it is started.
C16_SignFailureEndsRun ==
    cmd = "sync" =>
        \A k \in DOMAIN task :
            SignFailed(k) =>
                /\ NothingDoneFor(k)
                /\ i = k
                /\ pc \in {"await", "failed"}
                /\ \A j \in DOMAIN task : j > k => task[j].st = "none"

\* A run over two bans without key files has ended at the signing of the
\* first; the second was not started.
C16_Witness ==
    /\ cmd = "sync"
    /\ pc = "failed"
    /\ ~CanSign(keyfiles)
    /\ Len(list) = 2
    /\ SignFailed(1)
    /\ task[2].st = "none"
    /\ \E t \in SyncEvents("timer") : trace[t].id = task[1].data.uuid

(***************************************************************************)
(* C17.  As claimed: if every timer fires and every request gets a         *)
(* response or an error, sync reaches Done, for every ban list, after      *)
(* going through the work list once in ban-list order, without going back  *)
(* to an entry and without computing the diff again.                       *)
(***************************************************************************)
\* How far the promise of a work-list entry has got.
Progress(st) ==
    CASE st = "none" -> 0
      [] st = "timer" -> 1
      [] st = "sign" -> 2
      [] st = "sent" -> 3
      [] st = "answered" -> 4
      [] st = "write" -> 5
      [] st = "writing" -> 6
      [] OTHER -> 7

\* A step within a run keeps the work list and the loaded ledger, moves the
\* loop index on by at most one, never takes an entry back, and has started
\* no entry beyond the loop index.
OncePerEntry ==
    runs' = runs /\ cmd = "sync" =>
        /\ list' = list
        /\ loaded' = loaded
        /\ i' \in {i, i + 1}
        /\ \A k \in DOMAIN task :
              /\ Progress(task'[k].st) >= Progress(task[k].st)
              /\ task[k].st # "none" => task'[k].data.uuid = task[k].data.uuid
              /\ task'[k].st # "none" => k <= i'

\* The work list is the ban list, in its order, without the bans whose key
\* the loaded ledger has.
InBanListOrder ==
    \E f \in [DOMAIN list -> DOMAIN banfile] :
        /\ \A k \in DOMAIN list : list[k] = banfile[f[k]]
        /\ \A k \in DOMAIN list : k > 1 => f[k - 1] < f[k]

\* C17, as claimed: a sync that has started reaches Done, and goes through
\* its work list once and in order.
C17_SyncReachesDone ==
    /\ (cmd = "sync" /\ pc = "loop") ~> (pc = "done")
    /\ [][OncePerEntry]_vars
    /\ [](cmd = "sync" => InBanListOrder)

\* C17, amended: a sync that has started ends: it reaches Done after going
\* through the whole work list once and in order, or it ends at the first
\* entry whose signing, request or response fails.
C17_SyncEnds ==
    /\ (cmd = "sync" /\ pc = "loop") ~> (pc \in {"done", "failed"})
    /\ [][OncePerEntry]_vars
    /\ [](cmd = "sync" => InBanListOrder)
    /\ [](cmd = "sync" /\ pc = "done" =>
             /\ i = Len(list) + 1
             /\ \A k \in DOMAIN task : task[k].st = "done")
    /\ [](cmd = "sync" /\ pc = "failed" =>
             /\ i \in DOMAIN task
             /\ task[i].st = "err"
             /\ \A k \in DOMAIN task : k < i => task[k].st = "done")

\* A run over two bans has reached Done after both entries, the second of
\* them refused by the remote.
C17_Witness ==
    /\ cmd = "sync"
    /\ pc = "done"
    /\ Len(list) = 2
    /\ i = 3
    /\ task[1].st = "done"
    /\ task[2].st = "done"
    /\ ~task[2].res.status

(***************************************************************************)
(* C18.  The work list is a snapshot, taken once from the ledger as loaded *)
(* at the start of the run: a run that no error ends makes as many submit  *)
(* requests as the ban list has entries whose key the loaded ledger lacks, *)
(* and an entry recorded during the run takes no later entry off the work  *)
(* list.                                                                   *)
(***************************************************************************)
\* The ban-list entries whose key the ledger loaded by this run lacks.
AbsentAtLoad == {k \in DOMAIN banfile : DiffKey(banfile[k]) \notin DOMAIN loaded}

\* The submit requests of this run.
SubmitsThisRun == {n \in SyncEvents("submit") : trace[n].run = runs}

\* C18: the work list has one entry per ban-list entry absent at load, also
\* when the ledger in memory has its key by now; a run that reaches the end
\* of the loop has made one request for each of them.
C18_WorkListIsSnapshot ==
    cmd = "sync" /\ pc # "failed" =>
        /\ Len(list) = Cardinality(AbsentAtLoad)
        /\ \A k \in DOMAIN list : DiffKey(list[k]) \notin DOMAIN loaded
        /\ Cardinality(SubmitsThisRun) <= Cardinality(AbsentAtLoad)
        /\ pc = "done" => Cardinality(SubmitsThisRun) = Cardinality(AbsentAtLoad)

\* A run over a ban list that has one ban twice has ended: the first was
\* recorded, and a request was made for the second all the same.
C18_Witness ==
    /\ cmd = "sync"
    /\ pc = "done"
    /\ Len(list) = 2
    /\ DiffKey(list[1]) = DiffKey(list[2])
    /\ task[1].data.submit_id # ""
    /\ DiffKey(list[2]) \in DOMAIN submits
    /\ Cardinality(SubmitsThisRun) = 2

(***************************************************************************)
(* C19.  sync neither removes nor alters the ledger entries of keys it     *)
(* does not submit: every entry the ledger file had at the start of a run  *)
(* is in the file, with the same local and remote ids, after each rewrite  *)
(* of the file, unless the run recorded a submission under that key; and   *)
(* after every record the file equals the ledger in memory.                *)
(***************************************************************************)
\* This step completes a rewrite of the ledger file.
FileRewritten == ~file.ok /\ file'.ok

\* The keys under which this run has recorded a submission.
KeysRecorded(ts) ==
    {RecordKey(ts[k].data) : k \in {x \in DOMAIN ts : ts[x].data.submit_id # ""}}

\* The entries loaded at the start of the run are in mapping m as they were,
\* but for the keys the run has recorded anew.
LoadedKept(m) ==
    \A key \in DOMAIN loaded :
        /\ key \in DOMAIN m
        /\ key \notin KeysRecorded(task) => m[key] = loaded[key]

\* C19: a run starts from the ledger file as it is and leaves it alone in
\* doing so; a completed rewrite leaves the file equal to the ledger in memory;
\* and the file, whenever it holds a mapping, and the ledger in memory hold
\* every entry loaded at the start of the run as it was, unless the run has
\* recorded a submission under its key.
C19_OtherEntriesKept ==
    /\ [][ /\ FileRewritten => file'.map = submits'
           /\ runs' = runs + 1 /\ file.ok => loaded' = file.map /\ file' = file
       ]_vars
    /\ [](cmd = "sync" => LoadedKept(submits) /\ (file.ok => LoadedKept(file.map)))

\* The second run over a ledger with an entry of an earlier run has recorded a
\* submission: the file holds the old entry, the entry of the first run and
\* the new one.
C19_Witness ==
    /\ cmd = "sync"
    /\ runs = 2
    /\ file.ok
    /\ file.map = submits
    /\ trace[Len(trace)].ev = "recorded"
    /\ "A:1" \in DOMAIN file.map
    /\ file.map["A:1"] = OldEntry
    /\ Cardinality(DOMAIN file.map) = 3
    /\ Cardinality(DOMAIN loaded) = 2

====
